---- MODULE Spec2Model ----
(***************************************************************************)
(* XAUUSDStrategy (src/src/lib/trading/strategies/xauusd-strategy.ts): the  *)
(* snapshot builder (calculateIndicators), the entry evaluator              *)
(* (checkLongEntry, checkShortEntry), the signal generator (generateSignal) *)
(* and the risk manager (calculateStopLoss, calculateTakeProfitLevels,      *)
(* calculateTrailingStop).                                                  *)
(*                                                                         *)
(* Prices, band values, CCI and ATR are numbers of the source; they are     *)
(* modelled by integers, on which every comparison of the source is exact.  *)
(* An optional value (T | null, T | undefined) is a sequence of length 0    *)
(* or 1.  The indicator adapters are imported from other modules: a candle  *)
(* sequence is modelled by its length, its last candle and the outcome each *)
(* adapter has on it (a value, null, or an exception).                      *)
(***************************************************************************)
EXTENDS Integers, Sequences, FiniteSets, TLC

VARIABLES
    config,              \* this.config.strategy: aggressiveness, trailingDistance
    signalCheckCount,    \* private counters of the instance
    indicatorFailCount,
    longCheckCount,
    shortCheckCount,
    op,                  \* the public method that ran last ("none": no call pending)
    args,                \* its arguments
    ret,                 \* what it returned, or that it threw
    trace,               \* the adapters it invoked, in order
    frame,               \* the locals of the call: indicators1m, indicators5m, longCheck, shortCheck
    pos,                 \* the caller's open position and carried trailing state
    seen,                \* history: the prices of the ticks of the open position
    earlierCall          \* history: an earlier generateSignal call and its result

vars == <<config, signalCheckCount, indicatorFailCount, longCheckCount,
          shortCheckCount, op, args, ret, trace, frame, pos, seen, earlierCall>>

(***************************************************************************)
(* Bounds of the model.                                                    *)
(***************************************************************************)
MaxPrice == 2          \* candle closes and band values range over 0..MaxPrice
ExtraCandles == 1      \* candle sequences reach MinCandles + ExtraCandles
MaxChecks == 1         \* generateSignal calls per behaviour
MaxTickPrice == 5      \* entry, stop and tick prices range over 1..MaxTickPrice
MaxAtr == 2            \* the live ATR ranges over 0..MaxAtr
MaxRepeats == 3        \* generateSignal calls per behaviour of RepeatSpec

(***************************************************************************)
(* Program constants.                                                      *)
(***************************************************************************)
MinCandles == 35

None == <<>>
Some(x) == <<x>>
IsSome(m) == Len(m) = 1
Get(m) == m[1]

Max(a, b) == IF a >= b THEN a ELSE b
Min(a, b) == IF a <= b THEN a ELSE b
Abs(a) == IF a >= 0 THEN a ELSE -a

Tiers == {1, 2, 3}
TrailingDistances == {1, 2}
Prices == 0..MaxPrice
CloseTimes == {1, 2}
CallTimes == {7}
\* CCI readings on both sides of, and exactly at, every tier threshold
CCIValues == {-120, -100, -80, -50, -20, 0, 20, 50, 80, 100, 120}
Trends == {"up", "down"}

(***************************************************************************)
(* Adapter outcomes.  status "ok": the adapter returned value; "null": it  *)
(* returned null (calculateATR: an empty series); "throw": it raised an    *)
(* Error whose message is message.                                         *)
(***************************************************************************)
Ok(v) == [status |-> "ok", value |-> v, message |-> ""]
Failures ==
    { [status |-> "null", value |-> 0, message |-> ""],
      [status |-> "throw", value |-> 0, message |-> "Insufficient data"],
      [status |-> "throw", value |-> 0, message |-> "unexpected"] }

Insufficient == [status |-> "throw", value |-> 0, message |-> "Insufficient data"]

Bands == { [upper |-> u, lower |-> l] : u \in Prices, l \in Prices }
OrderedBands == { b \in Bands : b.lower <= b.upper }
MacdValue == [macd |-> 0, signal |-> 0, histogram |-> 0]
SuperTrends == { [value |-> 0, trend |-> t] : t \in Trends }
CrossoverOutcomes == {"true", "false", "throw"}

AdapterOrder == <<"keltner", "bollinger", "macd", "cci", "supertrend", "atr">>

(***************************************************************************)
(* calculateIndicators (lines 67-143).  The adapters run inside one try     *)
(* block in AdapterOrder; the first one that raises ends the block, and the *)
(* catch returns null, logging unless the message includes                  *)
(* 'Insufficient data'.                                                     *)
(***************************************************************************)
FirstThrow(candles) ==
    LET T == { i \in 1..Len(AdapterOrder) : candles[AdapterOrder[i]].status = "throw" }
    IN  IF T = {} THEN 0 ELSE CHOOSE i \in T : \A j \in T : i <= j

\* the null check without its MACD term
anyMissing_NoMacd(candles) ==
    \/ candles.keltner.status = "null"
    \/ candles.bollinger.status = "null"
    \/ candles.cci.status = "null"
    \/ candles.supertrend.status = "null"
    \/ candles.atr.status = "null"

anyMissing(candles) ==
    \/ candles.keltner.status = "null"
    \/ candles.bollinger.status = "null"
    \/ candles.macd.status = "null"
    \/ candles.cci.status = "null"
    \/ candles.supertrend.status = "null"
    \/ candles.atr.status = "null"

IndicatorValues(candles) ==
    [ keltner    |-> candles.keltner.value,
      bollinger  |-> candles.bollinger.value,
      macd       |-> candles.macd.value,
      cci        |-> candles.cci.value,
      supertrend |-> candles.supertrend.value,
      atr        |-> candles.atr.value ]

\* the warm-up length short by one
warmingUp_OneShort(candles) == candles.len < MinCandles - 1

warmingUp(candles) == candles.len < MinCandles

catchError(candles, t) ==
    [ value  |-> None,
      calls  |-> SubSeq(AdapterOrder, 1, t),
      logged |-> candles[AdapterOrder[t]].message # "Insufficient data",
      threw  |-> FALSE ]

calculateIndicators(candles) ==
    IF warmingUp(candles)
    THEN [value |-> None, calls |-> <<>>, logged |-> FALSE, threw |-> FALSE]
    ELSE LET t == FirstThrow(candles)
         IN  IF t # 0
             THEN catchError(candles, t)
             ELSE IF anyMissing(candles)
             THEN [value |-> None, calls |-> AdapterOrder, logged |-> FALSE, threw |-> FALSE]
             ELSE [value |-> Some(IndicatorValues(candles)), calls |-> AdapterOrder,
                   logged |-> FALSE, threw |-> FALSE]

(***************************************************************************)
(* The entry evaluator (lines 158-327).  A reason is the text of the        *)
(* source's template and the numbers it interpolates; the texts are named   *)
(* here by the guard they report:                                           *)
(*   KC_upper_not_broken   line 168      KC_lower_not_broken   line 260     *)
(*   BB_upper_not_broken   line 174      BB_lower_not_broken   line 266     *)
(*   MACD_no_golden_cross  line 184      MACD_no_death_cross   line 276     *)
(*   CCI_not_strong        lines 194,211,286,303                            *)
(*   SuperTrend_not_up     lines 198,215 SuperTrend_not_down   lines 290,307*)
(*   CCI_negative          line 227      CCI_positive          line 319     *)
(*   long_conservative / long_moderate / long_aggressive   lines 203,220,232*)
(*   short_conservative / short_moderate / short_aggressive lines 295,312,324*)
(* The optional fifth parameter indicators5m (lines 163, 255) is read in    *)
(* neither body; checkLongEntry and checkShortEntry take the four that are. *)
(***************************************************************************)
Reason(text, numbers) == [text |-> text, numbers |-> numbers]
Fail(text, numbers, calls) ==
    [threw |-> FALSE, signal |-> FALSE, reason |-> Reason(text, numbers), calls |-> calls]
Pass(text, numbers, calls) ==
    [threw |-> FALSE, signal |-> TRUE, reason |-> Reason(text, numbers), calls |-> calls]
\* an exception leaves the method: there is no return value
Raise(calls) ==
    [threw |-> TRUE, signal |-> FALSE, reason |-> Reason("", <<>>), calls |-> calls]

priceAboveKC(price, indicators1m) == price > indicators1m.keltner.upper
priceAboveBB(price, indicators1m) == price > indicators1m.bollinger.upper
priceBelowKC(price, indicators1m) == price < indicators1m.keltner.lower
priceBelowBB(price, indicators1m) == price < indicators1m.bollinger.lower

\* the conservative tier's CCI threshold taken non-strictly
longAuxiliary_AtThreshold(indicators1m, aggressiveness, calls) ==
    IF aggressiveness = 1
    THEN IF ~(indicators1m.cci >= 100)
         THEN Fail("CCI_not_strong", <<indicators1m.cci, 100>>, calls)
         ELSE IF ~(indicators1m.supertrend.trend = "up")
         THEN Fail("SuperTrend_not_up", <<>>, calls)
         ELSE Pass("long_conservative", <<indicators1m.cci>>, calls)
    ELSE IF aggressiveness = 2
    THEN IF ~(indicators1m.cci > 50)
         THEN Fail("CCI_not_strong", <<indicators1m.cci, 50>>, calls)
         ELSE IF ~(indicators1m.supertrend.trend = "up")
         THEN Fail("SuperTrend_not_up", <<>>, calls)
         ELSE Pass("long_moderate", <<indicators1m.cci>>, calls)
    ELSE IF ~(indicators1m.cci > 0)
         THEN Fail("CCI_negative", <<indicators1m.cci, 0>>, calls)
         ELSE Pass("long_aggressive", <<indicators1m.cci>>, calls)

\* lines 187-235: the tier's auxiliary filter of the long side
longAuxiliary(indicators1m, aggressiveness, calls) ==
    IF aggressiveness = 1
    THEN IF ~(indicators1m.cci > 100)
         THEN Fail("CCI_not_strong", <<indicators1m.cci, 100>>, calls)
         ELSE IF ~(indicators1m.supertrend.trend = "up")
         THEN Fail("SuperTrend_not_up", <<>>, calls)
         ELSE Pass("long_conservative", <<indicators1m.cci>>, calls)
    ELSE IF aggressiveness = 2
    THEN IF ~(indicators1m.cci > 50)
         THEN Fail("CCI_not_strong", <<indicators1m.cci, 50>>, calls)
         ELSE IF ~(indicators1m.supertrend.trend = "up")
         THEN Fail("SuperTrend_not_up", <<>>, calls)
         ELSE Pass("long_moderate", <<indicators1m.cci>>, calls)
    ELSE IF ~(indicators1m.cci > 0)
         THEN Fail("CCI_negative", <<indicators1m.cci, 0>>, calls)
         ELSE Pass("long_aggressive", <<indicators1m.cci>>, calls)

\* the aggressive tier's CCI test copied from the long side
shortAuxiliary_LongSignAtTier3(indicators1m, aggressiveness, calls) ==
    IF aggressiveness = 1
    THEN IF ~(indicators1m.cci < -100)
         THEN Fail("CCI_not_strong", <<indicators1m.cci, -100>>, calls)
         ELSE IF ~(indicators1m.supertrend.trend = "down")
         THEN Fail("SuperTrend_not_down", <<>>, calls)
         ELSE Pass("short_conservative", <<indicators1m.cci>>, calls)
    ELSE IF aggressiveness = 2
    THEN IF ~(indicators1m.cci < -50)
         THEN Fail("CCI_not_strong", <<indicators1m.cci, -50>>, calls)
         ELSE IF ~(indicators1m.supertrend.trend = "down")
         THEN Fail("SuperTrend_not_down", <<>>, calls)
         ELSE Pass("short_moderate", <<indicators1m.cci>>, calls)
    ELSE IF ~(indicators1m.cci > 0)
         THEN Fail("CCI_positive", <<indicators1m.cci, 0>>, calls)
         ELSE Pass("short_aggressive", <<indicators1m.cci>>, calls)

\* lines 279-327: the tier's auxiliary filter of the short side
shortAuxiliary(indicators1m, aggressiveness, calls) ==
    IF aggressiveness = 1
    THEN IF ~(indicators1m.cci < -100)
         THEN Fail("CCI_not_strong", <<indicators1m.cci, -100>>, calls)
         ELSE IF ~(indicators1m.supertrend.trend = "down")
         THEN Fail("SuperTrend_not_down", <<>>, calls)
         ELSE Pass("short_conservative", <<indicators1m.cci>>, calls)
    ELSE IF aggressiveness = 2
    THEN IF ~(indicators1m.cci < -50)
         THEN Fail("CCI_not_strong", <<indicators1m.cci, -50>>, calls)
         ELSE IF ~(indicators1m.supertrend.trend = "down")
         THEN Fail("SuperTrend_not_down", <<>>, calls)
         ELSE Pass("short_moderate", <<indicators1m.cci>>, calls)
    ELSE IF ~(indicators1m.cci < 0)
         THEN Fail("CCI_positive", <<indicators1m.cci, 0>>, calls)
         ELSE Pass("short_aggressive", <<indicators1m.cci>>, calls)

\* lines 177-185: isMACDBullishCrossover is called outside any try block
longCrossover(indicators1m, candles1m, aggressiveness) ==
    IF candles1m.bullish = "throw"
    THEN Raise(<<"isMACDBullishCrossover">>)
    ELSE IF candles1m.bullish = "false"
    THEN Fail("MACD_no_golden_cross", <<>>, <<"isMACDBullishCrossover">>)
    ELSE longAuxiliary(indicators1m, aggressiveness, <<"isMACDBullishCrossover">>)

\* lines 269-277: isMACDBearishCrossover is called outside any try block
shortCrossover(indicators1m, candles1m, aggressiveness) ==
    IF candles1m.bearish = "throw"
    THEN Raise(<<"isMACDBearishCrossover">>)
    ELSE IF candles1m.bearish = "false"
    THEN Fail("MACD_no_death_cross", <<>>, <<"isMACDBearishCrossover">>)
    ELSE shortAuxiliary(indicators1m, aggressiveness, <<"isMACDBearishCrossover">>)

\* the Bollinger breakout tested before the Keltner breakout
checkLongEntry_BollingerFirst(price, indicators1m, candles1m, aggressiveness) ==
    IF ~priceAboveBB(price, indicators1m)
    THEN Fail("BB_upper_not_broken", <<price, indicators1m.bollinger.upper>>, <<>>)
    ELSE IF ~priceAboveKC(price, indicators1m)
    THEN Fail("KC_upper_not_broken", <<price, indicators1m.keltner.upper>>, <<>>)
    ELSE longCrossover(indicators1m, candles1m, aggressiveness)

\* the two breakouts joined by OR
checkLongEntry_EitherBand(price, indicators1m, candles1m, aggressiveness) ==
    IF ~(priceAboveKC(price, indicators1m) \/ priceAboveBB(price, indicators1m))
    THEN Fail("KC_upper_not_broken", <<price, indicators1m.keltner.upper>>, <<>>)
    ELSE longCrossover(indicators1m, candles1m, aggressiveness)

checkLongEntry(price, indicators1m, candles1m, aggressiveness) ==
    IF ~priceAboveKC(price, indicators1m)
    THEN Fail("KC_upper_not_broken", <<price, indicators1m.keltner.upper>>, <<>>)
    ELSE IF ~priceAboveBB(price, indicators1m)
    THEN Fail("BB_upper_not_broken", <<price, indicators1m.bollinger.upper>>, <<>>)
    ELSE longCrossover(indicators1m, candles1m, aggressiveness)

\* the short check left as a copy of the long check
checkShortEntry_CopyOfLong(price, indicators1m, candles1m, aggressiveness) ==
    checkLongEntry(price, indicators1m, candles1m, aggressiveness)

checkShortEntry(price, indicators1m, candles1m, aggressiveness) ==
    IF ~priceBelowKC(price, indicators1m)
    THEN Fail("KC_lower_not_broken", <<price, indicators1m.keltner.lower>>, <<>>)
    ELSE IF ~priceBelowBB(price, indicators1m)
    THEN Fail("BB_lower_not_broken", <<price, indicators1m.bollinger.lower>>, <<>>)
    ELSE shortCrossover(indicators1m, candles1m, aggressiveness)

(***************************************************************************)
(* generateSignal (lines 342-440).  candles5m is optional; now is the       *)
(* reading of Date.now().  The result names what the caller gets (threw,    *)
(* value), the counters the call incremented, the adapters invoked and the  *)
(* locals of the call.                                                      *)
(***************************************************************************)
Signal(type, reason, timestamp, price, indicators) ==
    [ type |-> type, reason |-> reason, timestamp |-> timestamp,
      price |-> price, indicators |-> indicators ]

NoFrame ==
    [ indicators1m |-> None, built5m |-> FALSE, indicators5m |-> None,
      longCheck |-> None, shortCheck |-> None ]

Tagged(calls, timeframe) == [ i \in 1..Len(calls) |-> <<calls[i], timeframe>> ]

Outcome(threw, value, fails, longs, shorts, calls, locals) ==
    [ threw |-> threw, value |-> value, indicatorFails |-> fails,
      longSignals |-> longs, shortSignals |-> shorts, calls |-> calls,
      frame |-> locals ]

\* lines 372-376
confirmation(candles5m) ==
    IF IsSome(candles5m) /\ Get(candles5m).len > 0
    THEN [built |-> TRUE, result |-> calculateIndicators(Get(candles5m))]
    ELSE [built |-> FALSE,
          result |-> [value |-> None, calls |-> <<>>, logged |-> FALSE, threw |-> FALSE]]

\* short evaluated before long
decide_ShortFirst(candles1m, price, indicators1m, c5, calls0) ==
    LET latestCandle1m == candles1m
        shortCheck == checkShortEntry(price, indicators1m, candles1m, config.aggressiveness)
        calls1    == calls0 \o Tagged(shortCheck.calls, "1m")
        locals1   == [ indicators1m |-> Some(indicators1m), built5m |-> c5.built,
                       indicators5m |-> c5.result.value,
                       longCheck |-> None, shortCheck |-> Some(shortCheck) ]
    IN  IF shortCheck.threw
        THEN Outcome(TRUE, None, 0, 0, 0, calls1, locals1)
        ELSE IF shortCheck.signal
        THEN Outcome(FALSE,
                     Some(Signal("short", shortCheck.reason, latestCandle1m.closeTime,
                                 price, Some(indicators1m))),
                     0, 0, 1, calls1, locals1)
        ELSE LET longCheck == checkLongEntry(price, indicators1m, candles1m,
                                             config.aggressiveness)
                 calls2  == calls1 \o Tagged(longCheck.calls, "1m")
                 locals2 == [locals1 EXCEPT !.longCheck = Some(longCheck)]
             IN  IF longCheck.threw
                 THEN Outcome(TRUE, None, 0, 0, 0, calls2, locals2)
                 ELSE IF longCheck.signal
                 THEN Outcome(FALSE,
                              Some(Signal("long", longCheck.reason,
                                          latestCandle1m.closeTime, price,
                                          Some(indicators1m))),
                              0, 1, 0, calls2, locals2)
                 ELSE Outcome(FALSE,
                              Some(Signal("none", Reason("No entry conditions met", <<>>),
                                          latestCandle1m.closeTime, price,
                                          Some(indicators1m))),
                              0, 0, 0, calls2, locals2)

\* lines 378-440: the snapshot exists
\* tiers 1 and 2 made to require the confirmation snapshot
decide_NeedsConfirmation(candles1m, price, indicators1m, c5, calls0) ==
    IF config.aggressiveness < 3 /\ ~IsSome(c5.result.value)
    THEN Outcome(FALSE,
                 Some(Signal("none", Reason("No entry conditions met", <<>>),
                             candles1m.closeTime, price, Some(indicators1m))),
                 0, 0, 0, calls0,
                 [NoFrame EXCEPT !.indicators1m = Some(indicators1m), !.built5m = c5.built])
    ELSE
    LET latestCandle1m == candles1m
        longCheck == checkLongEntry(price, indicators1m, candles1m, config.aggressiveness)
        calls1    == calls0 \o Tagged(longCheck.calls, "1m")
        locals1   == [ indicators1m |-> Some(indicators1m), built5m |-> c5.built,
                       indicators5m |-> c5.result.value,
                       longCheck |-> Some(longCheck), shortCheck |-> None ]
    IN  IF longCheck.threw
        THEN Outcome(TRUE, None, 0, 0, 0, calls1, locals1)
        ELSE IF longCheck.signal
        THEN Outcome(FALSE,
                     Some(Signal("long", longCheck.reason, latestCandle1m.closeTime,
                                 price, Some(indicators1m))),
                     0, 1, 0, calls1, locals1)
        ELSE LET shortCheck == checkShortEntry(price, indicators1m, candles1m,
                                               config.aggressiveness)
                 calls2  == calls1 \o Tagged(shortCheck.calls, "1m")
                 locals2 == [locals1 EXCEPT !.shortCheck = Some(shortCheck)]
             IN  IF shortCheck.threw
                 THEN Outcome(TRUE, None, 0, 0, 0, calls2, locals2)
                 ELSE IF shortCheck.signal
                 THEN Outcome(FALSE,
                              Some(Signal("short", shortCheck.reason,
                                          latestCandle1m.closeTime, price,
                                          Some(indicators1m))),
                              0, 0, 1, calls2, locals2)
                 ELSE Outcome(FALSE,
                              Some(Signal("none", Reason("No entry conditions met", <<>>),
                                          latestCandle1m.closeTime, price,
                                          Some(indicators1m))),
                              0, 0, 0, calls2, locals2)

decide(candles1m, price, indicators1m, c5, calls0) ==
    LET latestCandle1m == candles1m
        longCheck == checkLongEntry(price, indicators1m, candles1m, config.aggressiveness)
        calls1    == calls0 \o Tagged(longCheck.calls, "1m")
        locals1   == [ indicators1m |-> Some(indicators1m), built5m |-> c5.built,
                       indicators5m |-> c5.result.value,
                       longCheck |-> Some(longCheck), shortCheck |-> None ]
    IN  IF longCheck.threw
        THEN Outcome(TRUE, None, 0, 0, 0, calls1, locals1)
        ELSE IF longCheck.signal
        THEN Outcome(FALSE,
                     Some(Signal("long", longCheck.reason, latestCandle1m.closeTime,
                                 price, Some(indicators1m))),
                     0, 1, 0, calls1, locals1)
        ELSE LET shortCheck == checkShortEntry(price, indicators1m, candles1m,
                                               config.aggressiveness)
                 calls2  == calls1 \o Tagged(shortCheck.calls, "1m")
                 locals2 == [locals1 EXCEPT !.shortCheck = Some(shortCheck)]
             IN  IF shortCheck.threw
                 THEN Outcome(TRUE, None, 0, 0, 0, calls2, locals2)
                 ELSE IF shortCheck.signal
                 THEN Outcome(FALSE,
                              Some(Signal("short", shortCheck.reason,
                                          latestCandle1m.closeTime, price,
                                          Some(indicators1m))),
                              0, 0, 1, calls2, locals2)
                 ELSE Outcome(FALSE,
                              Some(Signal("none", Reason("No entry conditions met", <<>>),
                                          latestCandle1m.closeTime, price,
                                          Some(indicators1m))),
                              0, 0, 0, calls2, locals2)

\* the check number appended to the reason, as in the [SIGNAL] log line
StampCheck(o) ==
    IF IsSome(o.value)
    THEN [o EXCEPT !.value = Some([Get(o.value) EXCEPT
                                     !.reason.numbers = @ \o <<signalCheckCount + 1>>])]
    ELSE o

generateSignal_CheckInReason(candles1m, candles5m, now) ==
    StampCheck(
        IF candles1m.len = 0
        THEN Outcome(FALSE, Some(Signal("none", Reason("No candle data", <<>>), now, 0, None)),
                     0, 0, 0, <<>>, NoFrame)
        ELSE LET latestCandle1m == candles1m
                 price == latestCandle1m.close
                 built1m == calculateIndicators(candles1m)
             IN  IF ~IsSome(built1m.value)
                 THEN Outcome(FALSE,
                              Some(Signal("none", Reason("Insufficient data for indicators", <<>>),
                                          latestCandle1m.closeTime, price, None)),
                              1, 0, 0, Tagged(built1m.calls, "1m"), NoFrame)
                 ELSE LET c5 == confirmation(candles5m)
                      IN  decide(candles1m, price, Get(built1m.value), c5,
                                 Tagged(built1m.calls, "1m") \o Tagged(c5.result.calls, "5m")))

\* the empty-sequence guard removed: reading close of the missing last candle
\* raises a TypeError
generateSignal_NoEmptyGuard(candles1m, candles5m, now) ==
    IF candles1m.len = 0
    THEN Outcome(TRUE, None, 0, 0, 0, <<>>, NoFrame)
    ELSE LET latestCandle1m == candles1m
             price == latestCandle1m.close
             built1m == calculateIndicators(candles1m)
         IN  IF ~IsSome(built1m.value)
             THEN Outcome(FALSE,
                          Some(Signal("none", Reason("Insufficient data for indicators", <<>>),
                                      latestCandle1m.closeTime, price, None)),
                          1, 0, 0, Tagged(built1m.calls, "1m"), NoFrame)
             ELSE LET c5 == confirmation(candles5m)
                  IN  decide(candles1m, price, Get(built1m.value), c5,
                             Tagged(built1m.calls, "1m") \o Tagged(c5.result.calls, "5m"))

generateSignal(candles1m, candles5m, now) ==
    IF candles1m.len = 0
    THEN Outcome(FALSE, Some(Signal("none", Reason("No candle data", <<>>), now, 0, None)),
                 0, 0, 0, <<>>, NoFrame)
    ELSE LET latestCandle1m == candles1m
             price == latestCandle1m.close
             built1m == calculateIndicators(candles1m)
         IN  IF ~IsSome(built1m.value)
             THEN Outcome(FALSE,
                          Some(Signal("none", Reason("Insufficient data for indicators", <<>>),
                                      latestCandle1m.closeTime, price, None)),
                          1, 0, 0, Tagged(built1m.calls, "1m"), NoFrame)
             ELSE LET c5 == confirmation(candles5m)
                  IN  decide(candles1m, price, Get(built1m.value), c5,
                             Tagged(built1m.calls, "1m") \o Tagged(c5.result.calls, "5m"))

(***************************************************************************)
(* calculateTrailingStop (lines 483-534).  profitR >= 1.0 is decided on     *)
(* profit / risk: for risk > 0 it is profit >= risk; for risk = 0 the       *)
(* quotient is Infinity (profit > 0), NaN (profit = 0) or -Infinity, and    *)
(* only Infinity passes.                                                    *)
(***************************************************************************)
\* the threshold taken strictly
profitRAtLeastOne_Strict(profit, risk) ==
    IF risk = 0 THEN profit > 0 ELSE profit > risk

profitRAtLeastOne(profit, risk) ==
    IF risk = 0 THEN profit > 0 ELSE profit >= risk

\* the long trail without its breakeven floor
longTrailingStop_NoBreakeven(entryPrice, newHighest, atr, trailingDistanceATR) ==
    newHighest - (atr * trailingDistanceATR)

longTrailingStop(entryPrice, newHighest, atr, trailingDistanceATR) ==
    Max(entryPrice, newHighest - (atr * trailingDistanceATR))

shortTrailingStop(entryPrice, newLowest, atr, trailingDistanceATR) ==
    Min(entryPrice, newLowest + (atr * trailingDistanceATR))

\* the extreme restarted from the current price on every tick
calculateTrailingStop_ForgetExtreme(entryPrice, currentPrice, highestPrice, lowestPrice, initialStopLoss, side, atr) ==
    LET risk == Abs(entryPrice - initialStopLoss)
        trailingDistanceATR == config.trailingDistance
    IN  IF side = "long"
        THEN LET newHighest == currentPrice
                 profit == currentPrice - entryPrice
             IN  IF profitRAtLeastOne(profit, risk)
                 THEN [ trailingStop |-> Some(longTrailingStop(entryPrice, newHighest, atr,
                                                               trailingDistanceATR)),
                        highestPrice |-> newHighest, lowestPrice |-> 0, active |-> TRUE ]
                 ELSE [ trailingStop |-> None, highestPrice |-> newHighest,
                        lowestPrice |-> 0, active |-> FALSE ]
        ELSE LET newLowest == currentPrice
                 profit == entryPrice - currentPrice
             IN  IF profitRAtLeastOne(profit, risk)
                 THEN [ trailingStop |-> Some(shortTrailingStop(entryPrice, newLowest, atr,
                                                                trailingDistanceATR)),
                        highestPrice |-> 0, lowestPrice |-> newLowest, active |-> TRUE ]
                 ELSE [ trailingStop |-> None, highestPrice |-> 0,
                        lowestPrice |-> newLowest, active |-> FALSE ]

calculateTrailingStop(entryPrice, currentPrice, highestPrice, lowestPrice, initialStopLoss, side, atr) ==
    LET risk == Abs(entryPrice - initialStopLoss)
        trailingDistanceATR == config.trailingDistance
    IN  IF side = "long"
        THEN LET newHighest == IF ~IsSome(highestPrice) THEN currentPrice
                               ELSE Max(Get(highestPrice), currentPrice)
                 profit == currentPrice - entryPrice
             IN  IF profitRAtLeastOne(profit, risk)
                 THEN [ trailingStop |-> Some(longTrailingStop(entryPrice, newHighest, atr,
                                                               trailingDistanceATR)),
                        highestPrice |-> newHighest, lowestPrice |-> 0, active |-> TRUE ]
                 ELSE [ trailingStop |-> None, highestPrice |-> newHighest,
                        lowestPrice |-> 0, active |-> FALSE ]
        ELSE LET newLowest == IF ~IsSome(lowestPrice) THEN currentPrice
                              ELSE Min(Get(lowestPrice), currentPrice)
                 profit == entryPrice - currentPrice
             IN  IF profitRAtLeastOne(profit, risk)
                 THEN [ trailingStop |-> Some(shortTrailingStop(entryPrice, newLowest, atr,
                                                                trailingDistanceATR)),
                        highestPrice |-> 0, lowestPrice |-> newLowest, active |-> TRUE ]
                 ELSE [ trailingStop |-> None, highestPrice |-> 0,
                        lowestPrice |-> newLowest, active |-> FALSE ]

(***************************************************************************)
(* calculateStopLoss (lines 446-458) and calculateTakeProfitLevels (lines   *)
(* 464-477).  The R multiples 1.5, 2.5 and 4.0 are kept as the halves 3, 5  *)
(* and 8, and a take-profit level is returned in half price units, so that  *)
(* entryPrice + risk * 1.5 is exactly 2 * entryPrice + risk * 3.            *)
(***************************************************************************)
\* the long stop never placed above the entry price
calculateStopLoss_CappedAtEntry(entryPrice, side, indicators) ==
    IF side = "long"
    THEN Min(entryPrice, Min(indicators.keltner.lower, indicators.bollinger.lower))
    ELSE Max(entryPrice, Max(indicators.keltner.upper, indicators.bollinger.upper))

calculateStopLoss(entryPrice, side, indicators) ==
    IF side = "long"
    THEN Min(indicators.keltner.lower, indicators.bollinger.lower)
    ELSE Max(indicators.keltner.upper, indicators.bollinger.upper)

Halves(x) == x + x

\* the ladder 1R, 2.5R, 4R
rMultiples_FirstAtOneR == <<2, 5, 8>>

rMultiples == <<3, 5, 8>>

\* short levels added to the entry price as for long
calculateTakeProfitLevels_LongOnly(entryPrice, stopLoss, side) ==
    LET risk == Abs(entryPrice - stopLoss)
    IN  [ i \in 1..Len(rMultiples) |-> Halves(entryPrice) + (risk * rMultiples[i]) ]

calculateTakeProfitLevels(entryPrice, stopLoss, side) ==
    LET risk == Abs(entryPrice - stopLoss)
    IN  [ i \in 1..Len(rMultiples) |->
            IF side = "long"
            THEN Halves(entryPrice) + (risk * rMultiples[i])
            ELSE Halves(entryPrice) - (risk * rMultiples[i]) ]

(***************************************************************************)
(* The candle sequences the model feeds.                                   *)
(***************************************************************************)
Candles(n, p, t, k, b, m, c, st, a, bull, bear) ==
    [ len |-> n, close |-> p, closeTime |-> t, keltner |-> k, bollinger |-> b,
      macd |-> m, cci |-> c, supertrend |-> st, atr |-> a,
      bullish |-> bull, bearish |-> bear ]

Healthy(n, p, t, k, b, c, st, bull, bear) ==
    Candles(n, p, t, Ok(k), Ok(b), Ok(MacdValue), Ok(c), Ok(st), Ok(1), bull, bear)

WarmLengths == MinCandles..(MinCandles + ExtraCandles)
ShortLengths == {1, MinCandles - 1}

\* an empty sequence has no last candle
EmptySeq ==
    Candles(0, 0, 0, Insufficient, Insufficient, Insufficient, Insufficient,
            Insufficient, Insufficient, "false", "false")

\* channels the close MaxPrice breaks upward and the close 0 breaks downward
MidBand == [upper |-> 1, lower |-> 1]
Bull == [cci |-> 120, supertrend |-> [value |-> 0, trend |-> "up"]]
Bear == [cci |-> -120, supertrend |-> [value |-> 0, trend |-> "down"]]

\* every price against every pair of channels, under readings that pass every
\* tier's filter for one side, with every crossover outcome
BandSeqs ==
    { Healthy(MinCandles, p, 1, k, b, m.cci, m.supertrend, bull, bear) :
        p \in Prices, k \in OrderedBands, b \in OrderedBands, m \in {Bull, Bear},
        bull \in CrossoverOutcomes, bear \in CrossoverOutcomes }

\* every CCI reading and trend against every price and crossover outcome
TierSeqs ==
    { Healthy(MinCandles, p, 1, MidBand, MidBand, c, st, bull, bear) :
        p \in Prices, c \in CCIValues, st \in SuperTrends,
        bull \in CrossoverOutcomes, bear \in CrossoverOutcomes }

\* every length and last candle
PlumbingSeqs ==
    { Healthy(n, p, t, MidBand, MidBand, m.cci, m.supertrend, bull, bear) :
        n \in ShortLengths \cup WarmLengths, p \in Prices, t \in CloseTimes,
        m \in {Bull, Bear}, bull \in CrossoverOutcomes, bear \in CrossoverOutcomes }

\* a long setup on which each adapter returns a value, returns null or raises
LongSetup == Healthy(MinCandles, MaxPrice, 2, MidBand, MidBand, 120, Bull.supertrend,
                     "true", "false")
FailingSeqs ==
    { Candles(LongSetup.len, LongSetup.close, LongSetup.closeTime, k, b, m, c, st, a,
              LongSetup.bullish, LongSetup.bearish) :
        k \in {LongSetup.keltner} \cup Failures, b \in {LongSetup.bollinger} \cup Failures,
        m \in {LongSetup.macd} \cup Failures, c \in {LongSetup.cci} \cup Failures,
        st \in {LongSetup.supertrend} \cup Failures, a \in {LongSetup.atr} \cup Failures }
    \ {LongSetup}

MacdMissing == [LongSetup EXCEPT !.macd = [status |-> "null", value |-> 0, message |-> ""]]

\* the confirmation timeframe: absent, empty, too short, failing, healthy
ConfirmationSeqs ==
    { None, Some(EmptySeq),
      Some([LongSetup EXCEPT !.len = MinCandles - 1]),
      Some([LongSetup EXCEPT !.cci = [status |-> "null", value |-> 0, message |-> ""]]),
      Some([LongSetup EXCEPT !.macd = [status |-> "throw", value |-> 0,
                                        message |-> "unexpected"]]),
      Some(LongSetup) }

\* the sequences of repeated calls: a long, a short and a quiet setup, a
\* failing snapshot, a raising crossover adapter, an empty sequence
ShortSetup == Healthy(MinCandles, 0, 1, MidBand, MidBand, -120, Bear.supertrend,
                      "false", "true")
QuietSetup == Healthy(MinCandles, 1, 1, MidBand, MidBand, 120, Bull.supertrend,
                      "true", "true")
RepeatSeqs ==
    { LongSetup, ShortSetup, QuietSetup, MacdMissing, EmptySeq,
      [LongSetup EXCEPT !.bullish = "throw"] }
RepeatConfirmations == { None, Some(LongSetup), Some(MacdMissing) }
RepeatTimes == {7, 8}

PositionPrices == 1..MaxTickPrice
AtrValues == 0..MaxAtr
Sides == {"long", "short"}

\* the snapshots and prices calculateStopLoss and calculateTakeProfitLevels
\* are called on; 2000 and 1990 are the entry and stop of a gold position
Snapshots ==
    { [ keltner |-> k, bollinger |-> b, macd |-> MacdValue, cci |-> Bull.cci,
        supertrend |-> Bull.supertrend, atr |-> 1 ] :
        k \in OrderedBands, b \in OrderedBands }
LadderPrices == PositionPrices \cup {1990, 2000}

(***************************************************************************)
(* The state machine.                                                      *)
(***************************************************************************)
Init ==
    /\ config \in [aggressiveness : Tiers, trailingDistance : TrailingDistances]
    /\ signalCheckCount = 0
    /\ indicatorFailCount = 0
    /\ longCheckCount = 0
    /\ shortCheckCount = 0
    /\ op = "none"
    /\ args = None
    /\ ret = None
    /\ trace = <<>>
    /\ frame = NoFrame
    /\ pos = None
    /\ seen = {}
    /\ earlierCall = None

\* one call of generateSignal, from entry to return or exception
Call(candles1m, candles5m, now) ==
    \E r \in {generateSignal(candles1m, candles5m, now)} :
        /\ signalCheckCount' = signalCheckCount + 1
        /\ indicatorFailCount' = indicatorFailCount + r.indicatorFails
        /\ longCheckCount' = longCheckCount + r.longSignals
        /\ shortCheckCount' = shortCheckCount + r.shortSignals
        /\ op' = "generateSignal"
        /\ args' = [candles1m |-> candles1m, candles5m |-> candles5m, now |-> now]
        /\ ret' = [threw |-> r.threw, value |-> r.value]
        /\ trace' = r.calls
        /\ frame' = r.frame
        /\ UNCHANGED <<config, pos, seen>>

GenerateSignal ==
    /\ op = "none"
    /\ signalCheckCount < MaxChecks
    /\ \E now \in CallTimes :
         \/ \E candles1m \in BandSeqs \cup TierSeqs \cup FailingSeqs :
              Call(candles1m, None, now)
         \/ \E candles1m \in PlumbingSeqs \cup {EmptySeq, MacdMissing},
                candles5m \in ConfirmationSeqs :
              Call(candles1m, candles5m, now)
    /\ UNCHANGED earlierCall

\* the caller takes the result (or the exception); the instance is idle again
Consume ==
    /\ op \in {"generateSignal", "enterPosition"}
    /\ op' = "none"
    /\ args' = None
    /\ ret' = None
    /\ trace' = <<>>
    /\ frame' = NoFrame
    /\ UNCHANGED <<config, signalCheckCount, indicatorFailCount, longCheckCount,
                   shortCheckCount, pos, seen, earlierCall>>

\* the caller acts on a long or short signal: the stop-loss from the signal's
\* snapshot, the take-profit ladder from the signal's price and that stop
EnterPosition ==
    /\ op = "generateSignal"
    /\ ~ret.threw
    /\ Get(ret.value).type \in {"long", "short"}
    /\ \E s \in {Get(ret.value)} :
         \E stop \in {calculateStopLoss(s.price, s.type, Get(s.indicators))} :
            /\ args' = [entryPrice |-> s.price, side |-> s.type,
                        indicators |-> Get(s.indicators)]
            /\ ret' = [stopLoss |-> stop,
                       takeProfitLevels |-> calculateTakeProfitLevels(s.price, stop, s.type)]
    /\ op' = "enterPosition"
    /\ UNCHANGED <<config, signalCheckCount, indicatorFailCount, longCheckCount,
                   shortCheckCount, trace, frame, pos, seen, earlierCall>>

\* a repeated call: the caller may remember one call to compare later ones with
RepeatCall ==
    /\ op = "none"
    /\ signalCheckCount < MaxRepeats
    /\ \E now \in RepeatTimes, candles1m \in RepeatSeqs, candles5m \in RepeatConfirmations :
         /\ Call(candles1m, candles5m, now)
         /\ \/ UNCHANGED earlierCall
            \/ /\ earlierCall = None
               /\ earlierCall' = Some([ candles1m |-> candles1m, candles5m |-> candles5m,
                                        now |-> now, ret |-> ret',
                                        counters |-> <<signalCheckCount', indicatorFailCount',
                                                       longCheckCount', shortCheckCount'>> ])

\* the caller opens a position, its stop not on the profit side of the entry:
\* nothing is carried yet
OpenPosition ==
    /\ pos = None
    /\ \E entryPrice \in PositionPrices, initialStopLoss \in PositionPrices, side \in Sides :
         /\ side = "long" => initialStopLoss <= entryPrice
         /\ side = "short" => initialStopLoss >= entryPrice
         /\ pos' = Some([ entryPrice |-> entryPrice, initialStopLoss |-> initialStopLoss,
                       side |-> side, highestPrice |-> None, lowestPrice |-> None ])
    /\ op' = "openPosition"
    /\ args' = None
    /\ ret' = None
    /\ seen' = {}
    /\ UNCHANGED <<config, signalCheckCount, indicatorFailCount, longCheckCount,
                   shortCheckCount, trace, frame, earlierCall>>

\* one price tick: calculateTrailingStop on the carried extremes, which the
\* caller replaces by the returned ones
Tick ==
    /\ IsSome(pos)
    /\ \E currentPrice \in PositionPrices, atr \in AtrValues :
         LET p == Get(pos)
             r == calculateTrailingStop(p.entryPrice, currentPrice, p.highestPrice,
                                        p.lowestPrice, p.initialStopLoss, p.side, atr)
         IN  /\ ret' = r
             /\ args' = [currentPrice |-> currentPrice, atr |-> atr]
             /\ seen' = seen \cup {currentPrice}
             /\ pos' = Some([p EXCEPT !.highestPrice = Some(r.highestPrice),
                                       !.lowestPrice = Some(r.lowestPrice)])
    /\ op' = "calculateTrailingStop"
    /\ UNCHANGED <<config, signalCheckCount, indicatorFailCount, longCheckCount,
                   shortCheckCount, trace, frame, earlierCall>>

\* one call of calculateStopLoss
StopLoss ==
    /\ \E entryPrice \in PositionPrices, side \in Sides, indicators \in Snapshots :
         /\ args' = [entryPrice |-> entryPrice, side |-> side, indicators |-> indicators]
         /\ ret' = calculateStopLoss(entryPrice, side, indicators)
    /\ op' = "calculateStopLoss"
    /\ UNCHANGED <<config, signalCheckCount, indicatorFailCount, longCheckCount,
                   shortCheckCount, trace, frame, pos, seen, earlierCall>>

\* one call of calculateTakeProfitLevels
TakeProfit ==
    /\ \E entryPrice \in LadderPrices, stopLoss \in LadderPrices, side \in Sides :
         /\ args' = [entryPrice |-> entryPrice, stopLoss |-> stopLoss, side |-> side]
         /\ ret' = calculateTakeProfitLevels(entryPrice, stopLoss, side)
    /\ op' = "calculateTakeProfitLevels"
    /\ UNCHANGED <<config, signalCheckCount, indicatorFailCount, longCheckCount,
                   shortCheckCount, trace, frame, pos, seen, earlierCall>>

\* the signal generator, which never reads trailingDistance
SignalInit == Init /\ config.trailingDistance = 1

Next == GenerateSignal \/ EnterPosition \/ Consume

Spec == SignalInit /\ [][Next]_vars

\* the risk manager, which never reads aggressiveness
RiskInit == Init /\ config.aggressiveness = 1

RiskNext == OpenPosition \/ Tick

RiskSpec == RiskInit /\ [][RiskNext]_vars

\* repeated calls on one instance, the caller acting on signals in between
RepeatNext == RepeatCall \/ EnterPosition \/ Consume

RepeatSpec == SignalInit /\ [][RepeatNext]_vars

\* the exit levels, which read no configuration
ExitInit == Init /\ config = [aggressiveness |-> 1, trailingDistance |-> 1]

ExitNext == StopLoss \/ TakeProfit

ExitSpec == ExitInit /\ [][ExitNext]_vars

(***************************************************************************)
(* Observables of one generateSignal call.                                 *)
(***************************************************************************)
Called == op = "generateSignal"
SnapshotBuilt == Called /\ IsSome(frame.indicators1m)
Returned == Called /\ ~ret.threw
candles1m == args.candles1m
price == args.candles1m.close
indicators1m == Get(frame.indicators1m)
tier == config.aggressiveness
longCheck == Get(frame.longCheck)
shortCheck == Get(frame.shortCheck)
signal == Get(ret.value)

AboveBothUpper == price > indicators1m.keltner.upper /\ price > indicators1m.bollinger.upper
BelowBothLower == price < indicators1m.keltner.lower /\ price < indicators1m.bollinger.lower

(***************************************************************************)
(* C1: AND semantics of the channel breakout.  In every call that built a   *)
(* snapshot, at every tier, checkLongEntry signals only on a price strictly *)
(* above both upper bands and generateSignal returns 'long' only then;      *)
(* checkShortEntry signals (and 'short' is returned) only on a price        *)
(* strictly below both lower bands.                                         *)
(***************************************************************************)
C1_BreakoutNeedsBothBands ==
    SnapshotBuilt =>
        /\ (IsSome(frame.longCheck) /\ longCheck.signal) => AboveBothUpper
        /\ (IsSome(frame.shortCheck) /\ shortCheck.signal) => BelowBothLower
        /\ \A t \in Tiers :
            /\ checkLongEntry(price, indicators1m, candles1m, t).signal => AboveBothUpper
            /\ checkShortEntry(price, indicators1m, candles1m, t).signal => BelowBothLower
        /\ (Returned /\ signal.type = "long") => AboveBothUpper
        /\ (Returned /\ signal.type = "short") => BelowBothLower

\* the price breaks the Keltner band and only touches the Bollinger band, with
\* a crossover and readings that pass the tier's filter: no long signal
C1_Witness ==
    /\ SnapshotBuilt
    /\ price > indicators1m.keltner.upper
    /\ price = indicators1m.bollinger.upper
    /\ candles1m.bullish = "true"
    /\ indicators1m.cci = 120
    /\ indicators1m.supertrend.trend = "up"
    /\ Returned
    /\ signal.type = "none"
    /\ ~longCheck.signal

(***************************************************************************)
(* C2: the tier table, with strict thresholds.  When both breakouts pass    *)
(* and the crossover adapter returns true, checkLongEntry signals exactly   *)
(* when the tier's row holds (1: cci > 100 and trend up; 2: cci > 50 and    *)
(* trend up; 3: cci > 0), and checkShortEntry exactly when the mirrored row *)
(* holds; a CCI equal to the threshold fails.                               *)
(***************************************************************************)
LongRow(t, cci, trend) ==
    \/ t = 1 /\ cci > 100 /\ trend = "up"
    \/ t = 2 /\ cci > 50 /\ trend = "up"
    \/ t = 3 /\ cci > 0

ShortRow(t, cci, trend) ==
    \/ t = 1 /\ cci < -100 /\ trend = "down"
    \/ t = 2 /\ cci < -50 /\ trend = "down"
    \/ t = 3 /\ cci < 0

LongCciPasses == (tier = 1 /\ indicators1m.cci > 100) \/ (tier = 2 /\ indicators1m.cci > 50)
                    \/ (tier = 3 /\ indicators1m.cci > 0)
ShortCciPasses == (tier = 1 /\ indicators1m.cci < -100) \/ (tier = 2 /\ indicators1m.cci < -50)
                    \/ (tier = 3 /\ indicators1m.cci < 0)

C3_LongOrder ==
    LET kc == price > indicators1m.keltner.upper
        bb == price > indicators1m.bollinger.upper
        text == longCheck.reason.text
    IN  /\ ~kc => text = "KC_upper_not_broken" /\ ~longCheck.signal
        /\ (kc /\ ~bb) => text = "BB_upper_not_broken" /\ ~longCheck.signal
        /\ (kc /\ bb /\ candles1m.bullish = "false") => text = "MACD_no_golden_cross"
        /\ (kc /\ bb /\ candles1m.bullish = "true" /\ ~LongCciPasses) =>
              text \in {"CCI_not_strong", "CCI_negative"}
        /\ (kc /\ bb /\ candles1m.bullish = "true" /\ LongCciPasses /\ tier \in {1, 2}
              /\ indicators1m.supertrend.trend # "up") => text = "SuperTrend_not_up"
        /\ longCheck.calls = (IF kc /\ bb THEN <<"isMACDBullishCrossover">> ELSE <<>>)

C3_ShortOrder ==
    LET kc == price < indicators1m.keltner.lower
        bb == price < indicators1m.bollinger.lower
        text == shortCheck.reason.text
    IN  /\ ~kc => text = "KC_lower_not_broken" /\ ~shortCheck.signal
        /\ (kc /\ ~bb) => text = "BB_lower_not_broken" /\ ~shortCheck.signal
        /\ (kc /\ bb /\ candles1m.bearish = "false") => text = "MACD_no_death_cross"
        /\ (kc /\ bb /\ candles1m.bearish = "true" /\ ~ShortCciPasses) =>
              text \in {"CCI_not_strong", "CCI_positive"}
        /\ (kc /\ bb /\ candles1m.bearish = "true" /\ ShortCciPasses /\ tier \in {1, 2}
              /\ indicators1m.supertrend.trend # "down") => text = "SuperTrend_not_down"
        /\ shortCheck.calls = (IF kc /\ bb THEN <<"isMACDBearishCrossover">> ELSE <<>>)

C3_GuardOrder ==
    SnapshotBuilt =>
        /\ IsSome(frame.longCheck) /\ C3_LongOrder
        /\ IsSome(frame.shortCheck) => C3_ShortOrder
        /\ <<"isMACDBullishCrossover", "1m">> \in { trace[i] : i \in 1..Len(trace) }
              => AboveBothUpper
        /\ <<"isMACDBearishCrossover", "1m">> \in { trace[i] : i \in 1..Len(trace) }
              => BelowBothLower

\* the Keltner breakout fails where the Bollinger breakout, the crossover and
\* the tier's filter would all have passed: the reason names Keltner
C3_Witness ==
    /\ SnapshotBuilt
    /\ ~(price > indicators1m.keltner.upper)
    /\ price > indicators1m.bollinger.upper
    /\ candles1m.bullish = "true"
    /\ indicators1m.cci = 120
    /\ indicators1m.supertrend.trend = "up"
    /\ longCheck.reason.text = "KC_upper_not_broken"
    /\ longCheck.calls = <<>>

(***************************************************************************)
(* C4: tier monotonicity.  On the price, snapshot and crossover outcome of  *)
(* a call, a long (short) signal at the configured tier is a long (short)   *)
(* signal at every looser tier; the converse fails.                         *)
(***************************************************************************)
C4_TierMonotone ==
    SnapshotBuilt =>
        /\ (IsSome(frame.longCheck) /\ longCheck.signal) =>
              \A t \in Tiers :
                  t >= tier => checkLongEntry(price, indicators1m, candles1m, t).signal
        /\ (IsSome(frame.shortCheck) /\ shortCheck.signal) =>
              \A t \in Tiers :
                  t >= tier => checkShortEntry(price, indicators1m, candles1m, t).signal
        /\ \A t1 \in Tiers, t2 \in Tiers :
              t1 <= t2 =>
                  /\ checkLongEntry(price, indicators1m, candles1m, t1).signal
                        => checkLongEntry(price, indicators1m, candles1m, t2).signal
                  /\ checkShortEntry(price, indicators1m, candles1m, t1).signal
                        => checkShortEntry(price, indicators1m, candles1m, t2).signal

\* a call at tier 1 that signals long on a snapshot, and on which tiers 2 and 3
\* signal too
C4_Witness ==
    /\ SnapshotBuilt
    /\ tier = 1
    /\ longCheck.signal
    /\ checkLongEntry(price, indicators1m, candles1m, 2).signal
    /\ checkLongEntry(price, indicators1m, candles1m, 3).signal

\* the converse fails: tier 1 rejects a setup that tier 3 accepts
C4_ConverseFails ==
    /\ SnapshotBuilt
    /\ tier = 1
    /\ ~longCheck.signal
    /\ checkLongEntry(price, indicators1m, candles1m, 3).signal

(***************************************************************************)
(* C5: long before short, exactly one outcome.  In every call that built    *)
(* the primary snapshot and in which no invoked crossover adapter raised,   *)
(* long is evaluated first; if it signals the call returns 'long' with the  *)
(* long reason and short is not evaluated; otherwise short is evaluated and *)
(* the call returns 'short' with the short reason if it signals, and 'none' *)
(* with 'No entry conditions met' if not.  The returned signal carries the  *)
(* primary snapshot, the last candle's close and its closeTime.  A call     *)
(* that built the snapshot fails to return only where an invoked crossover  *)
(* adapter raised.                                                          *)
(***************************************************************************)
BearishInvoked == <<"isMACDBearishCrossover", "1m">> \in { trace[i] : i \in 1..Len(trace) }
BullishInvoked == <<"isMACDBullishCrossover", "1m">> \in { trace[i] : i \in 1..Len(trace) }
CrossoverRaised ==
    \/ BullishInvoked /\ candles1m.bullish = "throw"
    \/ BearishInvoked /\ candles1m.bearish = "throw"

C5_LongBeforeShort ==
    SnapshotBuilt =>
        /\ IsSome(frame.longCheck)
        /\ ret.threw <=> CrossoverRaised
        /\ Returned =>
              /\ signal.indicators = frame.indicators1m
              /\ signal.indicators = Some(IndicatorValues(candles1m))
              /\ signal.price = candles1m.close
              /\ signal.timestamp = candles1m.closeTime
              /\ signal.type \in {"long", "short", "none"}
              /\ longCheck.signal =>
                    /\ signal.type = "long"
                    /\ signal.reason = longCheck.reason
                    /\ frame.shortCheck = None
                    /\ ~BearishInvoked
              /\ ~longCheck.signal =>
                    /\ IsSome(frame.shortCheck)
                    /\ shortCheck.signal =>
                          signal.type = "short" /\ signal.reason = shortCheck.reason
                    /\ ~shortCheck.signal =>
                          /\ signal.type = "none"
                          /\ signal.reason = Reason("No entry conditions met", <<>>)

\* long did not signal, short was evaluated and signalled: 'short' is returned
\* with the snapshot, the close and the closeTime
C5_Witness ==
    /\ SnapshotBuilt
    /\ Returned
    /\ ~longCheck.signal
    /\ IsSome(frame.shortCheck)
    /\ shortCheck.signal
    /\ signal.type = "short"
    /\ signal.timestamp = 2
    /\ IsSome(signal.indicators)

(***************************************************************************)
(* C6: warm-up fails closed.  On fewer than 35 candles calculateIndicators  *)
(* returns null and invokes no adapter; generateSignal on such a non-empty  *)
(* primary sequence returns 'none' with 'Insufficient data for indicators', *)
(* the last candle's closeTime and no snapshot, and evaluates no guard.     *)
(***************************************************************************)
C6_WarmUpFailsClosed ==
    Called =>
        /\ candles1m.len < MinCandles =>
              /\ calculateIndicators(candles1m).value = None
              /\ calculateIndicators(candles1m).calls = <<>>
        /\ (candles1m.len > 0 /\ candles1m.len < MinCandles) =>
              /\ Returned
              /\ signal.type = "none"
              /\ signal.reason = Reason("Insufficient data for indicators", <<>>)
              /\ signal.timestamp = candles1m.closeTime
              /\ signal.price = candles1m.close
              /\ signal.indicators = None
              /\ trace = <<>>
              /\ frame = NoFrame
              /\ indicatorFailCount >= 1
        /\ (IsSome(args.candles5m) /\ Get(args.candles5m).len < MinCandles) =>
              /\ frame.indicators5m = None
              /\ \A i \in 1..Len(trace) : trace[i][2] # "5m"

\* 34 candles on which every adapter would return a value and the setup
\* would signal long: 'none', no adapter invoked
C6_Witness ==
    /\ Called
    /\ candles1m.len = MinCandles - 1
    /\ candles1m.keltner.status = "ok"
    /\ candles1m.close > candles1m.keltner.value.upper
    /\ candles1m.bullish = "true"
    /\ candles1m.cci.value = 120
    /\ signal.type = "none"
    /\ signal.timestamp = 2
    /\ trace = <<>>

(***************************************************************************)
(* C7: the snapshot is all-or-nothing.  On at least 35 candles              *)
(* calculateIndicators returns a snapshot exactly when the five indicator   *)
(* adapters returned a value and the ATR series is not empty; an adapter    *)
(* that returns null or raises, whatever its message, makes it return null  *)
(* and nothing is propagated; generateSignal then returns 'none' with the   *)
(* insufficient-data reason.                                                *)
(***************************************************************************)
AllPresent(candles) ==
    \A i \in 1..Len(AdapterOrder) : candles[AdapterOrder[i]].status = "ok"

C7_AllOrNothing ==
    (Called /\ candles1m.len >= MinCandles) =>
        /\ IsSome(frame.indicators1m) <=> AllPresent(candles1m)
        /\ IsSome(frame.indicators1m) => indicators1m = IndicatorValues(candles1m)
        /\ ~AllPresent(candles1m) =>
              /\ Returned
              /\ signal.type = "none"
              /\ signal.reason = Reason("Insufficient data for indicators", <<>>)
              /\ signal.indicators = None
              /\ frame.longCheck = None
              /\ frame.shortCheck = None
        /\ (frame.built5m /\ Get(args.candles5m).len >= MinCandles) =>
              IsSome(frame.indicators5m) <=> AllPresent(Get(args.candles5m))
        /\ ret.threw => CrossoverRaised

\* the MACD adapter returns null where the others return values and the setup
\* would signal long
C7_Witness ==
    /\ Called
    /\ candles1m.len >= MinCandles
    /\ candles1m.macd.status = "null"
    /\ \A i \in 1..Len(AdapterOrder) :
          AdapterOrder[i] # "macd" => candles1m[AdapterOrder[i]].status = "ok"
    /\ candles1m.bullish = "true"
    /\ Returned
    /\ signal.type = "none"
    /\ signal.indicators = None

\* an adapter raises an error that is not 'Insufficient data': still null
C7_WitnessUnexpected ==
    /\ Called
    /\ candles1m.len >= MinCandles
    /\ candles1m.supertrend.status = "throw"
    /\ candles1m.supertrend.message = "unexpected"
    /\ candles1m.keltner.status = "ok"
    /\ Returned
    /\ signal.type = "none"

(***************************************************************************)
(* C8: the entry evaluator never throws and no failure is fatal: whatever   *)
(* the adapters do, the crossover adapter raising included, generateSignal  *)
(* returns a Signal.                                                        *)
(***************************************************************************)
C8_NeverThrows ==
    Called =>
        /\ ~ret.threw
        /\ IsSome(ret.value)
        /\ IsSome(frame.longCheck) => ~longCheck.threw
        /\ IsSome(frame.shortCheck) => ~shortCheck.threw

(***************************************************************************)
(* Observables of one calculateTrailingStop tick.                          *)
(***************************************************************************)
Ticked == op = "calculateTrailingStop"
\* two successive ticks of one position
NextTick == Ticked /\ op' = "calculateTrailingStop"
side == Get(pos).side

(***************************************************************************)
(* C9: trailing-stop ratchet.  After a tick that returned active = true,    *)
(* the next tick of the position returns a trailing stop that is not null   *)
(* and no looser: not lower for long, not higher for short.                 *)
(***************************************************************************)
C9_Ratchet ==
    [][ (NextTick /\ ret.active) =>
            /\ IsSome(ret'.trailingStop)
            /\ side = "long" => Get(ret'.trailingStop) >= Get(ret.trailingStop)
            /\ side = "short" => Get(ret'.trailingStop) <= Get(ret.trailingStop) ]_vars

(***************************************************************************)
(* C10: no transition back from active to passive.  After a tick that       *)
(* returned active = true, the next tick of the position returns            *)
(* active = true.                                                           *)
(***************************************************************************)
C10_StaysActive ==
    [][ (NextTick /\ ret.active) => ret'.active ]_vars

(***************************************************************************)
(* C11: breakeven lock.  On every tick that returns active = true the       *)
(* trailing stop is not below the entry price for long and not above it     *)
(* for short, whatever the ATR and the trailingDistance multiplier.         *)
(***************************************************************************)
C11_BreakevenLock ==
    (Ticked /\ ret.active) =>
        /\ IsSome(ret.trailingStop)
        /\ side = "long" => Get(ret.trailingStop) >= Get(pos).entryPrice
        /\ side = "short" => Get(ret.trailingStop) <= Get(pos).entryPrice

\* a long tick on which the trail alone would fall below the entry price
C11_Witness ==
    /\ Ticked
    /\ ret.active
    /\ side = "long"
    /\ ret.highestPrice - args.atr * config.trailingDistance < Get(pos).entryPrice
    /\ Get(ret.trailingStop) = Get(pos).entryPrice

(***************************************************************************)
(* C12: activation threshold and per-tick output.  With a risk distance     *)
(* |entryPrice - initialStopLoss| > 0, a tick returns active = true exactly *)
(* when the profit is at least one risk distance (exactly 1.0R included);   *)
(* on such a tick the trailing stop is max(entryPrice, highest - atr *      *)
(* trailingDistance) for long and min(entryPrice, lowest + atr *            *)
(* trailingDistance) for short, on the updated extreme; otherwise the       *)
(* trailing stop is null, as on every tick of a position whose extreme has  *)
(* never been one risk distance in profit.                                  *)
(***************************************************************************)
riskDistance == Abs(Get(pos).entryPrice - Get(pos).initialStopLoss)
tickProfit ==
    IF side = "long" THEN args.currentPrice - Get(pos).entryPrice
    ELSE Get(pos).entryPrice - args.currentPrice
bestProfit ==
    IF side = "long" THEN ret.highestPrice - Get(pos).entryPrice
    ELSE Get(pos).entryPrice - ret.lowestPrice

highestSeen == CHOOSE x \in seen : \A y \in seen : y <= x
lowestSeen == CHOOSE x \in seen : \A y \in seen : x <= y

C13_MonotoneExtremes ==
    /\ [](Ticked => /\ side = "long" => ret.highestPrice = highestSeen
                    /\ side = "short" => ret.lowestPrice = lowestSeen)
    /\ [][ NextTick => /\ side = "long" => ret'.highestPrice >= ret.highestPrice
                       /\ side = "short" => ret'.lowestPrice <= ret.lowestPrice ]_vars

\* a passive long tick below the carried extreme, after an active one
C13_Witness ==
    /\ Ticked
    /\ side = "long"
    /\ Cardinality(seen) >= 3
    /\ args.currentPrice < ret.highestPrice
    /\ ~ret.active
    /\ ret.highestPrice - Get(pos).entryPrice >= riskDistance
    /\ riskDistance > 0

(***************************************************************************)
(* C14: take-profit ladder.  calculateTakeProfitLevels returns exactly      *)
(* three levels, the entry price plus (long) or minus (short) 1.5, 2.5 and  *)
(* 4.0 times risk = |entryPrice - stopLoss|, in that order: ascending for   *)
(* long and descending for short, strictly so whenever the risk is          *)
(* positive.  Entry 2000 with stop 1990, long, gives 2015, 2025, 2040.      *)
(* Levels are in half price units.                                          *)
(***************************************************************************)
LadderCalled == op = "calculateTakeProfitLevels"
ladderRisk == Abs(args.entryPrice - args.stopLoss)

C14_TakeProfitLadder ==
    LadderCalled =>
        /\ Len(ret) = 3
        /\ args.side = "long" =>
              /\ ret[1] = 2 * args.entryPrice + 3 * ladderRisk
              /\ ret[2] = 2 * args.entryPrice + 5 * ladderRisk
              /\ ret[3] = 2 * args.entryPrice + 8 * ladderRisk
              /\ ret[1] <= ret[2] /\ ret[2] <= ret[3]
              /\ ladderRisk > 0 => (ret[1] < ret[2] /\ ret[2] < ret[3])
        /\ args.side = "short" =>
              /\ ret[1] = 2 * args.entryPrice - 3 * ladderRisk
              /\ ret[2] = 2 * args.entryPrice - 5 * ladderRisk
              /\ ret[3] = 2 * args.entryPrice - 8 * ladderRisk
              /\ ret[1] >= ret[2] /\ ret[2] >= ret[3]
              /\ ladderRisk > 0 => (ret[1] > ret[2] /\ ret[2] > ret[3])
        /\ (args.entryPrice = 2000 /\ args.stopLoss = 1990 /\ args.side = "long") =>
              ret = <<2 * 2015, 2 * 2025, 2 * 2040>>

C14_Witness ==
    /\ LadderCalled
    /\ args = [entryPrice |-> 2000, stopLoss |-> 1990, side |-> "long"]
    /\ ret = <<4030, 4050, 4080>>

\* a short ladder below the entry price
C14_WitnessShort ==
    /\ LadderCalled
    /\ args.side = "short"
    /\ ladderRisk > 0
    /\ ret[3] < ret[1]
    /\ ret[1] < 2 * args.entryPrice

(***************************************************************************)
(* C15: initial stop-loss.  calculateStopLoss returns                       *)
(* min(keltner.lower, bollinger.lower) for long and                         *)
(* max(keltner.upper, bollinger.upper) for short, and returns the same for  *)
(* every entry price.                                                       *)
(***************************************************************************)
StopLossCalled == op = "calculateStopLoss"

C15_StopLoss ==
    StopLossCalled =>
        /\ args.side = "long" =>
              /\ ret <= args.indicators.keltner.lower
              /\ ret <= args.indicators.bollinger.lower
              /\ ret \in {args.indicators.keltner.lower, args.indicators.bollinger.lower}
        /\ args.side = "short" =>
              /\ ret >= args.indicators.keltner.upper
              /\ ret >= args.indicators.bollinger.upper
              /\ ret \in {args.indicators.keltner.upper, args.indicators.bollinger.upper}
        /\ \A e \in PositionPrices :
              calculateStopLoss(e, args.side, args.indicators) = ret

\* a short stop below the entry price: the entry price did not enter it
C15_Witness ==
    /\ StopLossCalled
    /\ args.side = "short"
    /\ args.indicators.keltner.upper < args.indicators.bollinger.upper
    /\ ret = args.indicators.bollinger.upper
    /\ args.entryPrice > ret

(***************************************************************************)
(* C16: determinism across repeated calls.  For a non-empty primary         *)
(* sequence, a call of generateSignal returns what an earlier call on the   *)
(* same primary and confirmation sequences returned on the same instance,   *)
(* field for field, whatever calls were made in between and whatever the    *)
(* four counters have become.                                               *)
(***************************************************************************)
earlier == Get(earlierCall)
Repeated ==
    /\ Called
    /\ IsSome(earlierCall)
    /\ earlier.candles1m = args.candles1m
    /\ earlier.candles5m = args.candles5m
    /\ args.candles1m.len > 0

C16_Deterministic ==
    Repeated =>
        /\ ret.threw = earlier.ret.threw
        /\ ret.value = earlier.ret.value

\* the same long setup again, two calls later, at another time, after a call
\* whose snapshot failed
C16_Witness ==
    /\ Repeated
    /\ signalCheckCount >= earlier.counters[1] + 2
    /\ indicatorFailCount > earlier.counters[2]
    /\ longCheckCount > earlier.counters[3]
    /\ args.now # earlier.now
    /\ Returned
    /\ signal.type = "long"

(***************************************************************************)
(* C17: the confirmation timeframe has no effect on the decision.  For the  *)
(* primary sequence, tier and time of a call, generateSignal returns the    *)
(* same signal (or raises alike) whether the confirmation candles are       *)
(* absent, empty, too short, failing in an adapter or healthy; no           *)
(* exception leaves the confirmation snapshot builder.                      *)
(***************************************************************************)
FromConfirmation(a) == a[2] = "5m"
ConfirmationCalls == { i \in 1..Len(trace) : FromConfirmation(trace[i]) }

longWould == checkLongEntry(price, indicators1m, candles1m, tier)
shortWould == checkShortEntry(price, indicators1m, candles1m, tier)

C18_MutuallyExclusive ==
    SnapshotBuilt =>
        /\ ~(longWould.signal /\ shortWould.signal)
        /\ (Returned /\ signal.type = "long") =>
              /\ frame.shortCheck = None
              /\ ~shortWould.signal
              /\ ~shortWould.threw

\* a long signal on candles whose bearish crossover adapter also answers true
C18_Witness ==
    /\ Returned
    /\ signal.type = "long"
    /\ tier = 3
    /\ candles1m.bullish = "true"
    /\ candles1m.bearish = "true"
    /\ indicators1m.keltner.lower < price

(***************************************************************************)
(* C19: empty input is a named no-signal outcome.  On an empty primary      *)
(* sequence generateSignal returns type 'none' with reason 'No candle       *)
(* data', price 0, the time of the call and no snapshot, invokes no         *)
(* adapter and builds no confirmation snapshot, whatever the confirmation   *)
(* candles.                                                                 *)
(***************************************************************************)
C19_EmptyInput ==
    (Called /\ candles1m.len = 0) =>
        /\ Returned
        /\ signal.type = "none"
        /\ signal.reason = Reason("No candle data", <<>>)
        /\ signal.price = 0
        /\ signal.timestamp = args.now
        /\ signal.indicators = None
        /\ trace = <<>>
        /\ frame = NoFrame

\* an empty primary sequence with healthy confirmation candles
C19_Witness ==
    /\ Called
    /\ candles1m.len = 0
    /\ args.candles5m = Some(LongSetup)
    /\ signal.reason.text = "No candle data"

(***************************************************************************)
(* C20: signal-to-risk consistency.  For a 'long' signal with price p and   *)
(* a snapshot whose Keltner and Bollinger bands have lower <= upper, the    *)
(* stop-loss calculateStopLoss gives is strictly below p, and the ladder    *)
(* calculateTakeProfitLevels gives from p and that stop is three strictly   *)
(* ascending levels, all above p; for a 'short' signal the stop-loss is     *)
(* strictly above p and the levels strictly descending, all below p.        *)
(* Levels are in half price units.                                          *)
(***************************************************************************)
Entered == op = "enterPosition"
BandsOrdered ==
    /\ args.indicators.keltner.lower <= args.indicators.keltner.upper
    /\ args.indicators.bollinger.lower <= args.indicators.bollinger.upper

C20_SignalToRisk ==
    (Entered /\ BandsOrdered) =>
        /\ Len(ret.takeProfitLevels) = 3
        /\ args.side = "long" =>
              /\ ret.stopLoss < args.entryPrice
              /\ 2 * args.entryPrice < ret.takeProfitLevels[1]
              /\ ret.takeProfitLevels[1] < ret.takeProfitLevels[2]
              /\ ret.takeProfitLevels[2] < ret.takeProfitLevels[3]
        /\ args.side = "short" =>
              /\ ret.stopLoss > args.entryPrice
              /\ 2 * args.entryPrice > ret.takeProfitLevels[1]
              /\ ret.takeProfitLevels[1] > ret.takeProfitLevels[2]
              /\ ret.takeProfitLevels[2] > ret.takeProfitLevels[3]

\* a short entry whose stop is the Bollinger upper band, above the Keltner one
C20_Witness ==
    /\ Entered
    /\ BandsOrdered
    /\ args.side = "short"
    /\ args.indicators.keltner.upper < args.indicators.bollinger.upper
    /\ ret.stopLoss = args.indicators.bollinger.upper

====
